---- MODULE Spec2Model ----
(***************************************************************************)
(* Model of the auto-compile request coordinator, the React hook           *)
(* useAutoCompile (src/nextjs/hooks/useAutoCompile.ts), driven by the      *)
(* Resume Lab page that owns resumeData and selectedTemplate               *)
(* (src/unnamed/part_004).                                                 *)
(*                                                                         *)
(* One action is one event-loop turn: an event handler together with the   *)
(* render and the effects React runs for the state it changed.  The refs   *)
(* resumeDataRef, selectedTemplateRef and currentPageRef are re-assigned   *)
(* from the state on every render (lines 46-49), so they are read here as  *)
(* the state variables themselves.  A state setter called after the        *)
(* component has unmounted changes nothing (SetState).                     *)
(*                                                                         *)
(* The transport is the environment: a pending request may be answered     *)
(* with a success, with a failure, or, once its abort handle has been      *)
(* triggered, with a cancellation.  Cancelling is advisory, an aborted     *)
(* request may still be answered.  A settled request keeps only its        *)
(* sequence number, its abort flag and its outcome.                        *)
(*                                                                         *)
(* The callers are the page's: setResumeData, handleTemplateSelect (which  *)
(* queues triggerCompile with setTimeout 0), clearResume, the editor's     *)
(* compile button and the page viewer's previous/next buttons.             *)
(*                                                                         *)
(* Two more parts of the application are modelled with specifications of   *)
(* their own, since their state and the hook's do not meet: the draft the  *)
(* Resume Lab page keeps in localStorage (DraftSpec, part_004:110-171,     *)
(* 389-400) and the job search of the Job Finder page (JobSpec,            *)
(* src/nextjs/app/job-finder/page.tsx).                                    *)
(***************************************************************************)
EXTENDS Integers, Sequences, FiniteSets, TLC

\* ---- bounds of the model ----
MaxReq == 2              \* compile requests issued in one behaviour
MaxTimers == 2           \* timer ids 1..MaxTimers
MaxPendingTrigger == 1   \* queued setTimeout(() => triggerCompile(), 0)
MaxSearch == 3           \* job searches issued in one behaviour

\* ---- values ----
NoDoc == "none"          \* resumeData === null
Docs == {"d1", "d2"}     \* document values
NoTemplate == "null"     \* selectedTemplate === null
Uploaded == "uploaded"
RealTemplates == {"t1", "t2"}
Templates == RealTemplates \cup {Uploaded}
EmptyDoc == "d1"         \* createEmptyResumeData()
NoError == "null"        \* compileError === null
NaN == 0 - 1             \* parseInt of a string that is not a number
Headers == {"missing", "2", "bad"}      \* x-page-count of a response
FailKinds == {"detail", "network"}
NoResume == "none"       \* selectedResume === null
ResumeIds == {"r1", "r2"}  \* resume ids of the job finder
NoQuery == ""            \* the empty search box
Queries == {NoQuery, "k"}
NoJobs == [resume |-> "empty", q |-> "empty"]   \* jobs === []

VARIABLES
  mounted,            \* the component is mounted
  resumeData,         \* page state, part_004:72
  selectedTemplate,   \* page state, part_004:73
  pendingTrigger,     \* queued setTimeout(() => triggerCompile(), 0), part_004:382
  previewImageUrl,    \* 0 = null, else the blob URL shown
  pageCount,
  currentPage,
  compiling,
  compileError,
  hasPreviewRef,
  timerRef,           \* 0 = null, else a timer id
  timers,             \* timer ids armed and neither fired nor cleared
  abortRef,           \* 0 = null, else the request owning the controller
  seqRef,
  prevBlobUrlRef,     \* 0 = null, else a blob URL
  requests,           \* issued compile requests, in issue order
  created,            \* blob URLs created by URL.createObjectURL
  revokeCount,        \* blob URL -> number of URL.revokeObjectURL calls
  collapseCount,      \* careerlift:sidebar-collapse events dispatched
  last,               \* history: the last operation and the request it was about
  burst,              \* history: the current run of scheduleCompile events:
                      \*   active, no triggerCompile/goToPage since it began;
                      \*   multi, it has two events or more; issued, requests
                      \*   its timers issued; doc, the document last supplied
  everCleared,        \* history: a template clear or the unmount has run
  session,            \* history: the session under way (a template is
                      \*   selected): installed, a preview was installed in
                      \*   it; emits, sidebar-collapse events dispatched in it
  shown,              \* history: the page the displayed preview is the
                      \*   render of
  storedDraft,        \* localStorage careerlift:resumeBuilder, NoDoc = absent
  storedLast,         \* localStorage careerlift:lastResume, NoDoc = absent
  persistTimers,      \* pending persist timers (part_004:127): the document
                      \*   each captured, and whether the page instance that
                      \*   armed it is the one mounted (debounceRef holds it)
  draftCleared,       \* history: clearResume has run and resume data has
                      \*   not been set since
  selectedResume,     \* job finder state, page.tsx:78-86
  q,
  jobs,               \* NoJobs, or the query whose result is displayed
  jobError,
  loading,
  searches            \* the calls of search(), in issue order

vars == <<mounted, resumeData, selectedTemplate, pendingTrigger,
          previewImageUrl, pageCount, currentPage, compiling, compileError,
          hasPreviewRef, timerRef, timers, abortRef, seqRef, prevBlobUrlRef,
          requests, created, revokeCount, collapseCount, last, burst,
          everCleared, session, shown,
          storedDraft, storedLast, persistTimers, draftCleared,
          selectedResume, q, jobs, jobError, loading, searches>>

hookVars == <<mounted, pendingTrigger,
              previewImageUrl, pageCount, currentPage, compiling, compileError,
              hasPreviewRef, timerRef, timers, abortRef, seqRef,
              prevBlobUrlRef, requests, created, revokeCount, collapseCount,
              last, burst, everCleared, session, shown>>
draftVars == <<storedDraft, storedLast, persistTimers, draftCleared>>
jobVars == <<selectedResume, q, jobs, jobError, loading, searches>>

pageVars == <<resumeData, selectedTemplate>>
previewVars == <<previewImageUrl, pageCount, hasPreviewRef, prevBlobUrlRef,
                 created, revokeCount, collapseCount>>
requestVars == <<abortRef, seqRef, requests>>

Blobs == 1..MaxReq

\* ---- helpers translated from the code ----

\* the guard of doCompile and of the debounce effect, negated
Guard_NoSentinel(data, template) ==
  data # NoDoc /\ template # NoTemplate

Guard(data, template) ==
  data # NoDoc /\ template # NoTemplate /\ template # Uploaded

\* React drops a state update of an unmounted component
SetState(old, new) == IF mounted THEN new ELSE old

\* ++seqRef.current
NextSeq_NoIncrement(s) == s

NextSeq(s) == s + 1

\* seq === seqRef.current
IsCurrent_Always(seq) == TRUE

IsCurrent(seq) == seq = seqRef

\* controller.abort() on the controller held in abortRef
Abort_Skipped(reqs, h) == reqs

Abort(reqs, h) ==
  IF h = 0 THEN reqs ELSE [reqs EXCEPT ![h].aborted = TRUE]

\* clearTimeout(id)
ClearTimeout_Skipped(ts, id) == ts

ClearTimeout(ts, id) == ts \ {id}

\* the id setTimeout returns: one not in use
FreshTimer(ts) ==
  CHOOSE t \in 1..(MaxTimers + 1) :
    t \notin ts /\ \A u \in 1..(t - 1) : u \in ts

\* URL.revokeObjectURL(url)
Revoke_Skipped(rc, url) == rc

Revoke_Twice(rc, url) == [rc EXCEPT ![url] = @ + 2]

Revoke(rc, url) == [rc EXCEPT ![url] = @ + 1]

\* parseInt(response.headers["x-page-count"] || "1", 10)
ParsePageCount(h) ==
  CASE h = "missing" -> 1
    [] h = "2" -> 2
    [] OTHER -> NaN

\* the message a failure shows
ErrorText_Null(kind) == NoError

ErrorText(kind) ==
  CASE kind = "detail" -> "detail"
    [] kind = "plain" -> "Compilation failed"
    [] OTHER -> "message"

\* no preview installed and no event dispatched in the session
NoSession == [installed |-> FALSE, emits |-> 0]

\* no preview is displayed
NoShown == 0

\* no run of scheduleCompile events is under way
NoBurst == [active |-> FALSE, multi |-> FALSE, issued |-> 0, doc |-> NoDoc]

Init ==
  /\ mounted = TRUE
  /\ resumeData = NoDoc
  /\ selectedTemplate = NoTemplate
  /\ pendingTrigger = 0
  /\ previewImageUrl = 0
  /\ pageCount = 0
  /\ currentPage = 0
  /\ compiling = FALSE
  /\ compileError = NoError
  /\ hasPreviewRef = FALSE
  /\ timerRef = 0
  /\ timers = {}
  /\ abortRef = 0
  /\ seqRef = 0
  /\ prevBlobUrlRef = 0
  /\ requests = <<>>
  /\ created = {}
  /\ revokeCount = [b \in Blobs |-> 0]
  /\ collapseCount = 0
  /\ last = [op |-> "init", req |-> 0, timer |-> FALSE, page |-> 0]
  /\ burst = NoBurst
  /\ everCleared = FALSE
  /\ session = NoSession
  /\ shown = NoShown
  /\ storedDraft = NoDoc
  /\ storedLast = NoDoc
  /\ persistTimers = {}
  /\ draftCleared = FALSE
  /\ selectedResume = NoResume
  /\ q = NoQuery
  /\ jobs = NoJobs
  /\ jobError = NoError
  /\ loading = TRUE
  /\ searches = <<[resume |-> NoResume, q |-> NoQuery, st |-> "pending"]>>

\* history: the operation, the request it issued or settled, and what it
\* found: a debounce timer pending, the page that was current
Last(op, req) ==
  [op |-> op, req |-> req, timer |-> timers # {}, page |-> currentPage]

\* ---- doCompile, lines 51-69: the guard, the abort of the previous request,
\* ---- the new controller and sequence number, the two flag updates
NewRequest_StalePage(targetPage) ==
  [seq |-> NextSeq(seqRef), page |-> currentPage, doc |-> resumeData,
   template |-> selectedTemplate, aborted |-> FALSE, st |-> "pending",
   kind |-> "none"]

NewRequest(targetPage) ==
  [seq |-> NextSeq(seqRef), page |-> targetPage, doc |-> resumeData,
   template |-> selectedTemplate, aborted |-> FALSE, st |-> "pending",
   kind |-> "none"]

DoCompile(targetPage) ==
  IF Guard(resumeData, selectedTemplate)
  THEN /\ Len(requests) < MaxReq
       /\ requests' = Append(Abort(requests, abortRef), NewRequest(targetPage))
       /\ abortRef' = Len(requests) + 1
       /\ seqRef' = NextSeq(seqRef)
       /\ compiling' = SetState(compiling, TRUE)
       /\ compileError' = SetState(compileError, NoError)
  ELSE UNCHANGED <<requestVars, compiling, compileError>>

Issues == Guard(resumeData, selectedTemplate)

\* ---- a render that changes resumeData or selectedTemplate, with the
\* ---- effects it runs: the cleanup of the debounce effect's previous run
\* ---- (168-173), its body (151-166), the clear-preview effect (177-190)
Commit(newData, newTpl) ==
  LET changed == newData # resumeData \/ newTpl # selectedTemplate
      tplChanged == newTpl # selectedTemplate
      cleanupRuns == changed /\ Guard(resumeData, selectedTemplate) /\ timerRef # 0
      ts1 == IF cleanupRuns THEN ClearTimeout(timers, timerRef) ELSE timers
      ref1 == IF cleanupRuns THEN 0 ELSE timerRef
      arms == changed /\ Guard(newData, newTpl)
      ts2 == IF arms /\ ref1 # 0 THEN ClearTimeout(ts1, ref1) ELSE ts1
      t == FreshTimer(ts2)
      clears == tplChanged /\ (newTpl = NoTemplate \/ newTpl = Uploaded)
      releases == clears /\ prevBlobUrlRef # 0
  IN /\ resumeData' = newData
     /\ selectedTemplate' = newTpl
     /\ arms => t <= MaxTimers
     /\ timers' = IF arms THEN ts2 \cup {t} ELSE ts1
     /\ timerRef' = IF arms THEN t ELSE ref1
     /\ currentPage' = IF arms \/ clears THEN 0 ELSE currentPage
     /\ revokeCount' = IF releases THEN Revoke(revokeCount, prevBlobUrlRef)
                       ELSE revokeCount
     /\ prevBlobUrlRef' = IF clears THEN 0 ELSE prevBlobUrlRef
     /\ previewImageUrl' = IF clears THEN 0 ELSE previewImageUrl
     /\ hasPreviewRef' = IF clears THEN FALSE ELSE hasPreviewRef
     /\ pageCount' = IF clears THEN 0 ELSE pageCount
     /\ compileError' = IF clears THEN NoError ELSE compileError
     /\ everCleared' = (everCleared \/ clears)
     /\ session' = IF (newTpl \in RealTemplates)
                        = (selectedTemplate \in RealTemplates)
                    THEN session ELSE NoSession
     /\ shown' = IF clears THEN NoShown ELSE shown
     /\ burst' = IF ~arms THEN (IF changed THEN NoBurst ELSE burst)
                 ELSE IF burst.active /\ timers # {}
                      THEN [burst EXCEPT !.multi = TRUE, !.doc = newData]
                      ELSE [active |-> TRUE, multi |-> FALSE, issued |-> 0,
                            doc |-> newData]
     /\ UNCHANGED <<mounted, compiling, requestVars, created, collapseCount>>

\* ---- the page's handlers (part_004) ----

\* setResumeData from the editor, an upload or the stored draft
SetResumeData(d) ==
  /\ mounted
  /\ d # resumeData
  /\ Commit(d, selectedTemplate)
  /\ last' = Last("edit", 0)
  /\ UNCHANGED <<draftVars, jobVars>>
  /\ UNCHANGED pendingTrigger

\* handleTemplateSelect, part_004:373-384
HandleTemplateSelect(id) ==
  /\ mounted
  /\ id # Uploaded => pendingTrigger < MaxPendingTrigger
  /\ Commit(IF resumeData = NoDoc THEN EmptyDoc ELSE resumeData, id)
  /\ pendingTrigger' = IF id # Uploaded THEN pendingTrigger + 1
                       ELSE pendingTrigger
  /\ last' = Last("select", 0)
  /\ UNCHANGED <<draftVars, jobVars>>

\* clearResume, part_004:389-400
ClearResume ==
  /\ mounted
  /\ resumeData # NoDoc \/ selectedTemplate # NoTemplate
  /\ Commit(NoDoc, NoTemplate)
  /\ last' = Last("clear", 0)
  /\ UNCHANGED <<draftVars, jobVars>>
  /\ UNCHANGED pendingTrigger

\* ---- the hook's operations ----

\* triggerCompile, lines 132-138
TriggerBody ==
  /\ timers' = IF timerRef # 0 THEN ClearTimeout(timers, timerRef) ELSE timers
  /\ timerRef' = 0
  /\ DoCompile(currentPage)
  /\ burst' = NoBurst
  /\ last' = Last("trigger", IF Issues THEN Len(requests) + 1 ELSE 0)
  /\ UNCHANGED <<draftVars, jobVars>>
  /\ UNCHANGED <<mounted, pageVars, previewVars, currentPage, everCleared,
                 session, shown>>

\* the editor's compile button (onCompile), shown while the builder is active
TriggerCompile ==
  /\ mounted
  /\ Guard(resumeData, selectedTemplate)
  /\ TriggerBody
  /\ UNCHANGED pendingTrigger

\* the setTimeout(() => triggerCompile(), 0) of handleTemplateSelect runs
FireTrigger ==
  /\ pendingTrigger > 0
  /\ pendingTrigger' = pendingTrigger - 1
  /\ TriggerBody

\* the page viewer's previous/next buttons offer page p:
\* PdfViewer.tsx 35-37, 54, 111-128, rendered while the builder is active
\* (part_004:534-561) with isRecompiling = compiling && previewImageUrl !== null
IsRecompiling == compiling /\ previewImageUrl # 0

ViewerOffers_NoCanPrev(p) ==
  /\ Guard(resumeData, selectedTemplate)
  /\ previewImageUrl # 0
  /\ pageCount > 1
  /\ ~IsRecompiling
  /\ \/ p = currentPage - 1
     \/ p = currentPage + 1 /\ currentPage < pageCount - 1

ViewerOffers(p) ==
  /\ Guard(resumeData, selectedTemplate)
  /\ previewImageUrl # 0
  /\ pageCount > 1
  /\ ~IsRecompiling
  /\ \/ p = currentPage - 1 /\ currentPage > 0
     \/ p = currentPage + 1 /\ currentPage < pageCount - 1

\* goToPage, lines 141-148, called by the page viewer (onPageChange)
GoToPage(p) ==
  /\ mounted
  /\ ViewerOffers(p)
  /\ currentPage' = p
  /\ timers' = IF timerRef # 0 THEN ClearTimeout(timers, timerRef) ELSE timers
  /\ timerRef' = 0
  /\ DoCompile(p)
  /\ burst' = NoBurst
  /\ last' = Last("goto", Len(requests) + 1)
  /\ UNCHANGED <<draftVars, jobVars>>
  /\ UNCHANGED <<mounted, pageVars, previewVars, pendingTrigger, everCleared,
                 session, shown>>

\* the debounce timer expires, lines 163-166
TimerFire(t) ==
  /\ t \in timers
  /\ timers' = timers \ {t}
  /\ timerRef' = 0
  /\ DoCompile(0)
  /\ burst' = IF Issues THEN [burst EXCEPT !.issued = @ + 1] ELSE burst
  /\ last' = Last("timer", IF Issues THEN Len(requests) + 1 ELSE 0)
  /\ UNCHANGED <<draftVars, jobVars>>
  /\ UNCHANGED <<mounted, pageVars, previewVars, currentPage, pendingTrigger,
                 everCleared, session, shown>>

\* ---- the transport answers a pending request ----

\* a settled request: only its sequence number and its outcome are kept
Done(i, kind) ==
  [requests EXCEPT ![i] = [seq |-> @.seq, page |-> 0, doc |-> NoDoc,
                           template |-> NoTemplate, aborted |-> @.aborted,
                           st |-> "done", kind |-> kind]]

\* axios.post resolves: lines 83-107, then the finally block 124-128
ResolveSuccess(i, h) ==
  /\ i \in DOMAIN requests
  /\ requests[i].st = "pending"
  /\ requests' = Done(i, "success")
  /\ last' = Last("success", i)
  /\ UNCHANGED <<draftVars, jobVars>>
  /\ IF IsCurrent(requests[i].seq)
     THEN /\ revokeCount' = IF prevBlobUrlRef # 0
                            THEN Revoke(revokeCount, prevBlobUrlRef)
                            ELSE revokeCount
          /\ created' = created \cup {i}
          /\ prevBlobUrlRef' = i
          /\ previewImageUrl' = SetState(previewImageUrl, i)
          /\ hasPreviewRef' = TRUE
          /\ pageCount' = SetState(pageCount, ParsePageCount(h))
          /\ collapseCount' = IF hasPreviewRef THEN collapseCount
                              ELSE collapseCount + 1
          /\ compiling' = SetState(compiling, FALSE)
          /\ session' = IF selectedTemplate \in RealTemplates
                         THEN [installed |-> TRUE,
                               emits |-> IF hasPreviewRef THEN session.emits
                                         ELSE session.emits + 1]
                         ELSE session
          /\ shown' = SetState(shown, requests[i].page)
     ELSE UNCHANGED <<previewVars, compiling, session, shown>>
  /\ UNCHANGED <<mounted, pageVars, pendingTrigger, currentPage, compileError,
                 timerRef, timers, abortRef, seqRef, burst, everCleared>>

\* axios.post rejects with a cancellation: line 110, then the finally block
ResolveCancel_Reported(i) ==
  /\ i \in DOMAIN requests
  /\ requests[i].st = "pending"
  /\ requests[i].aborted
  /\ requests' = Done(i, "cancel")
  /\ last' = Last("cancel", i)
  /\ UNCHANGED <<draftVars, jobVars>>
  /\ compileError' = SetState(compileError, ErrorText("cancel"))
  /\ compiling' = IF IsCurrent(requests[i].seq)
                  THEN SetState(compiling, FALSE) ELSE compiling
  /\ UNCHANGED <<mounted, pageVars, pendingTrigger, previewVars, currentPage,
                 timerRef, timers, abortRef, seqRef, burst, everCleared,
                 session, shown>>

ResolveCancel(i) ==
  /\ i \in DOMAIN requests
  /\ requests[i].st = "pending"
  /\ requests[i].aborted
  /\ requests' = Done(i, "cancel")
  /\ last' = Last("cancel", i)
  /\ UNCHANGED <<draftVars, jobVars>>
  /\ compiling' = IF IsCurrent(requests[i].seq)
                  THEN SetState(compiling, FALSE) ELSE compiling
  /\ UNCHANGED <<mounted, pageVars, pendingTrigger, previewVars, currentPage,
                 compileError, timerRef, timers, abortRef, seqRef, burst,
                 everCleared, session, shown>>

\* axios.post rejects with an error: lines 110-123.  A failure that carries
\* a response body suspends at the read of the body text (line 115)
ResolveFailure(i, kind) ==
  /\ i \in DOMAIN requests
  /\ requests[i].st = "pending"
  /\ last' = Last("failure", i)
  /\ UNCHANGED <<draftVars, jobVars>>
  /\ IF ~IsCurrent(requests[i].seq)
     THEN /\ requests' = Done(i, kind)
          /\ UNCHANGED <<compileError, compiling>>
     ELSE IF kind = "network"
     THEN /\ requests' = Done(i, kind)
          /\ compileError' = SetState(compileError, ErrorText(kind))
          /\ compiling' = SetState(compiling, FALSE)
     ELSE /\ requests' = [requests EXCEPT ![i].st = "reading", ![i].kind = kind]
          /\ UNCHANGED <<compileError, compiling>>
  /\ UNCHANGED <<mounted, pageVars, pendingTrigger, previewVars, currentPage,
                 timerRef, timers, abortRef, seqRef, burst, everCleared,
                 session, shown>>

\* the body text has been read: lines 116-120, then the finally block
BodyRead(i) ==
  /\ i \in DOMAIN requests
  /\ requests[i].st = "reading"
  /\ requests' = Done(i, requests[i].kind)
  /\ last' = Last("body", i)
  /\ UNCHANGED <<draftVars, jobVars>>
  /\ compileError' = SetState(compileError, ErrorText(requests[i].kind))
  /\ compiling' = IF IsCurrent(requests[i].seq)
                  THEN SetState(compiling, FALSE) ELSE compiling
  /\ UNCHANGED <<mounted, pageVars, pendingTrigger, previewVars, currentPage,
                 timerRef, timers, abortRef, seqRef, burst, everCleared,
                 session, shown>>

\* ---- the component unmounts: the cleanup of the debounce effect
\* ---- (168-173) and the unmount cleanup (194-200)
Unmount ==
  LET cleanupRuns == Guard(resumeData, selectedTemplate) /\ timerRef # 0
      ts1 == IF cleanupRuns THEN ClearTimeout(timers, timerRef) ELSE timers
      ref1 == IF cleanupRuns THEN 0 ELSE timerRef
  IN /\ mounted
     /\ mounted' = FALSE
     /\ timers' = IF ref1 # 0 THEN ClearTimeout(ts1, ref1) ELSE ts1
     /\ timerRef' = ref1
     /\ requests' = Abort(requests, abortRef)
     /\ revokeCount' = IF prevBlobUrlRef # 0
                       THEN Revoke(revokeCount, prevBlobUrlRef)
                       ELSE revokeCount
     /\ everCleared' = TRUE
     /\ UNCHANGED <<session, shown>>
     /\ last' = Last("unmount", 0)
     /\ UNCHANGED <<draftVars, jobVars>>
     /\ UNCHANGED <<pageVars, pendingTrigger, previewImageUrl, pageCount,
                    currentPage, compiling, compileError, hasPreviewRef,
                    abortRef, seqRef, prevBlobUrlRef, created, collapseCount>>
     /\ burst' = NoBurst

Next ==
  \/ \E d \in Docs : SetResumeData(d)
  \/ \E id \in Templates : HandleTemplateSelect(id)
  \/ ClearResume
  \/ TriggerCompile
  \/ FireTrigger
  \/ \E p \in {currentPage - 1, currentPage + 1} : GoToPage(p)
  \/ \E t \in timers : TimerFire(t)
  \/ \E i \in 1..MaxReq, h \in Headers : ResolveSuccess(i, h)
  \/ \E i \in 1..MaxReq : ResolveCancel(i)
  \/ \E i \in 1..MaxReq, k \in FailKinds : ResolveFailure(i, k)
  \/ \E i \in 1..MaxReq : BodyRead(i)
  \/ Unmount

Spec == Init /\ [][Next]_vars

\* ==== the stored draft of the Resume Lab page (part_004) ====

\* the persist effect, lines 124-134, run by a render that set resumeData to
\* d: nothing for null, else the timer debounceRef holds is cleared and one
\* that captures d is armed
Persist(ts, d) ==
  IF d = NoDoc THEN ts
  ELSE {t \in ts : ~t.mine} \cup {[doc |-> d, mine |-> TRUE]}

\* the editor's onChange (setResumeData), shown while the builder is active
DraftEdit(d) ==
  /\ Guard(resumeData, selectedTemplate)
  /\ d # resumeData
  /\ resumeData' = d
  /\ persistTimers' = Persist(persistTimers, d)
  /\ draftCleared' = FALSE
  /\ UNCHANGED <<selectedTemplate, storedDraft, storedLast, hookVars, jobVars>>

\* a successful upload, lines 317-327: the payload is stored under
\* careerlift:lastResume and the extracted document becomes resumeData
DraftUpload(d) ==
  /\ storedLast' = d
  /\ resumeData' = d
  /\ persistTimers' = Persist(persistTimers, d)
  /\ draftCleared' = FALSE
  /\ UNCHANGED <<selectedTemplate, storedDraft, hookVars, jobVars>>

\* handleTemplateSelect, lines 373-378
DraftTemplateSelect(id) ==
  /\ id # selectedTemplate \/ resumeData = NoDoc
  /\ selectedTemplate' = id
  /\ IF resumeData = NoDoc
     THEN /\ resumeData' = EmptyDoc
          /\ persistTimers' = Persist(persistTimers, EmptyDoc)
          /\ draftCleared' = FALSE
     ELSE UNCHANGED <<resumeData, persistTimers, draftCleared>>
  /\ UNCHANGED <<storedDraft, storedLast, hookVars, jobVars>>

\* clearResume, lines 389-400, and the persist effect's run for null
DraftClearResume ==
  /\ resumeData # NoDoc \/ selectedTemplate # NoTemplate
  /\ storedLast' = NoDoc
  /\ storedDraft' = NoDoc
  /\ resumeData' = NoDoc
  /\ selectedTemplate' = NoTemplate
  /\ persistTimers' = Persist(persistTimers, NoDoc)
  /\ draftCleared' = TRUE
  /\ UNCHANGED <<hookVars, jobVars>>

\* a persist timer expires, lines 128-133
PersistFire(t) ==
  /\ t \in persistTimers
  /\ storedDraft' = t.doc
  /\ persistTimers' = persistTimers \ {t}
  /\ UNCHANGED <<pageVars, storedLast, draftCleared, hookVars, jobVars>>

\* the page is left and opened again: no cleanup clears the persist timer;
\* the two load effects, lines 111-120 and 138-170, then the persist effect
DraftReload ==
  LET loaded == IF storedDraft # NoDoc THEN storedDraft ELSE storedLast
      left == {[doc |-> t.doc, mine |-> FALSE] : t \in persistTimers}
  IN /\ resumeData' = loaded
     /\ selectedTemplate' = NoTemplate
     /\ persistTimers' = Persist(left, loaded)
     /\ UNCHANGED <<storedDraft, storedLast, draftCleared, hookVars, jobVars>>

DraftNext ==
  \/ \E d \in Docs : DraftEdit(d)
  \/ \E d \in Docs : DraftUpload(d)
  \/ \E id \in Templates : DraftTemplateSelect(id)
  \/ DraftClearResume
  \/ \E t \in persistTimers : PersistFire(t)
  \/ DraftReload

DraftSpec == Init /\ [][DraftNext]_vars

\* ==== the job search of the Job Finder page (job-finder/page.tsx) ====

\* search(), lines 87-98, up to the await of loadJobs: the query is read from
\* the state of the render that calls it
IssueSearch(resume) ==
  /\ Len(searches) < MaxSearch
  /\ searches' = Append(searches,
                        [resume |-> resume, q |-> q, st |-> "pending"])
  /\ loading' = TRUE
  /\ jobError' = NoError

\* the search box, line 216
SetQ(v) ==
  /\ v # q
  /\ q' = v
  /\ UNCHANGED <<selectedResume, jobs, jobError, loading, searches>>
  /\ UNCHANGED <<pageVars, hookVars, draftVars>>

\* the form is submitted, line 212; its button is disabled while loading
SubmitSearch ==
  /\ ~loading
  /\ IssueSearch(selectedResume)
  /\ UNCHANGED <<selectedResume, q, jobs>>
  /\ UNCHANGED <<pageVars, hookVars, draftVars>>

\* a resume is chosen, lines 165-169, and the effect of lines 143-147 runs
SelectResume(r) ==
  /\ r # selectedResume
  /\ selectedResume' = r
  /\ IF r # NoResume THEN IssueSearch(r)
     ELSE UNCHANGED <<searches, loading, jobError>>
  /\ UNCHANGED <<q, jobs>>
  /\ UNCHANGED <<pageVars, hookVars, draftVars>>

\* loadJobs resolves: lines 99 and 104
SearchSucceeds(i) ==
  /\ i \in DOMAIN searches
  /\ searches[i].st = "pending"
  /\ searches' = [searches EXCEPT ![i].st = "ok"]
  /\ jobs' = [resume |-> searches[i].resume, q |-> searches[i].q]
  /\ loading' = FALSE
  /\ UNCHANGED <<selectedResume, q, jobError>>
  /\ UNCHANGED <<pageVars, hookVars, draftVars>>

\* loadJobs rejects: lines 101-104
SearchFails(i) ==
  /\ i \in DOMAIN searches
  /\ searches[i].st = "pending"
  /\ searches' = [searches EXCEPT ![i].st = "failed"]
  /\ jobError' = "message"
  /\ jobs' = NoJobs
  /\ loading' = FALSE
  /\ UNCHANGED <<selectedResume, q>>
  /\ UNCHANGED <<pageVars, hookVars, draftVars>>

JobNext ==
  \/ \E v \in Queries : SetQ(v)
  \/ SubmitSearch
  \/ \E r \in ResumeIds \cup {NoResume} : SelectResume(r)
  \/ \E i \in 1..MaxSearch : SearchSucceeds(i)
  \/ \E i \in 1..MaxSearch : SearchFails(i)

JobSpec == Init /\ [][JobNext]_vars

\* ==== properties ====

Pending(i) == i \in DOMAIN requests /\ requests[i].st = "pending"

\* a response (success, failure or cancellation) of request i is delivered
Delivered(i) ==
  /\ Pending(i)
  /\ requests'[i].st # "pending"

\* request i is answered or its handler resumes after the body read
Resumes(i) ==
  /\ i \in DOMAIN requests
  /\ requests'[i].st # requests[i].st

RECURSIVE SumRevoked(_)
SumRevoked(n) == IF n = 0 THEN 0 ELSE revokeCount[n] + SumRevoked(n - 1)

Released == SumRevoked(MaxReq)
Installs == Cardinality(created)
Live == {b \in created : revokeCount[b] = 0}

\* C1: last issued wins.  Once a later request has been issued, no step of
\* an earlier request's handler (its response, or the end of its body read)
\* changes previewImageUrl or pageCount, whatever the completion order.
C1_LastIssuedWins ==
  [][\A i \in DOMAIN requests :
       (i < Len(requests) /\ Resumes(i)) =>
         UNCHANGED <<previewImageUrl, pageCount>>]_vars

\* A's successful response arrives after B has installed its preview
C1_Witness ==
  /\ Len(requests) = 2
  /\ last.op = "success"
  /\ last.req = 1
  /\ requests[2].st = "done"
  /\ 2 \in created
  /\ 1 \notin created
  /\ previewImageUrl = 2
  /\ mounted

\* C2: debounce collapses bursts.  A run of scheduleCompile events, each
\* arriving while the previous timer is pending and with no triggerCompile or
\* goToPage in between, issues at most one request, and the request its timer
\* issues carries the last-supplied document and page 0.
C2_DebounceCollapses ==
  burst.active =>
    /\ burst.issued <= 1
    /\ (last.op = "timer" /\ last.req # 0) =>
         /\ requests[last.req].doc = burst.doc
         /\ requests[last.req].page = 0

C2_Witness ==
  /\ burst.active
  /\ burst.multi
  /\ burst.issued = 1
  /\ last.op = "timer"
  /\ last.req = Len(requests)
  /\ requests[last.req].st = "pending"

\* C3: sequence monotonicity.  Every issued request has a sequence number
\* strictly greater than that of every request issued before it, and seqRef
\* is the largest one issued.
C3_SequenceMonotonic ==
  /\ \A i, j \in DOMAIN requests :
       i < j => requests[i].seq < requests[j].seq
  /\ \A i \in DOMAIN requests : requests[i].seq <= seqRef

\* request 1 installed a preview, a template clear released it, and
\* request 2 has just been issued after re-selection
C3_Witness ==
  /\ mounted
  /\ 1 \in created
  /\ revokeCount[1] = 1
  /\ prevBlobUrlRef = 0
  /\ last.req = 2
  /\ last.op \in {"timer", "trigger"}
  /\ requests[2].seq = 2

\* the handler of request i, still current, installs a preview
Installs_(i) ==
  /\ Delivered(i)
  /\ requests'[i].kind = "success"
  /\ i \in created'

\* the handler of request i finishes with a failure while i is current
FailsCurrent(i) ==
  /\ Resumes(i)
  /\ requests'[i].st = "done"
  /\ requests'[i].kind \in FailKinds
  /\ IsCurrent(requests[i].seq)

\* C4: error preserves last-good state.  With the component mounted, a
\* failing compile whose sequence is current sets a non-null error string and
\* leaves previewImageUrl and pageCount unchanged; a successful compile that
\* installs its preview leaves the error string null.
C4_ErrorPreservesLastGood ==
  [][mounted =>
       \A i \in DOMAIN requests :
         /\ FailsCurrent(i) =>
              /\ compileError' # NoError
              /\ UNCHANGED <<previewImageUrl, pageCount>>
         /\ Installs_(i) =>
              /\ compileError' = NoError
              /\ previewImageUrl' = i]_vars

\* C5: a cancelled request can never affect visible state.  A response
\* delivered for a request whose abort handle has been triggered changes
\* none of previewImageUrl, pageCount, compileError, the first-success flag,
\* and neither releases nor installs a preview resource.
C5_CancelledNeverAffects ==
  [][\A i \in DOMAIN requests :
       (requests[i].aborted /\ Delivered(i)) =>
         UNCHANGED <<previewImageUrl, pageCount, compileError, hasPreviewRef,
                     prevBlobUrlRef, created, revokeCount>>]_vars

\* the selected template becomes null or "uploaded"
TemplateCleared ==
  /\ selectedTemplate' # selectedTemplate
  /\ selectedTemplate' \in {NoTemplate, Uploaded}

\* C6: template clear tears the session down.  When the template becomes
\* null or "uploaded" while a request is in flight, every in-flight request
\* has its abort handle triggered, no debounce timer stays pending and the
\* current preview resource is released.
C6_ClearTearsDown ==
  [][(TemplateCleared /\ \E i \in DOMAIN requests : Pending(i)) =>
       /\ \A i \in DOMAIN requests : Pending(i) => requests'[i].aborted
       /\ timers' = {}
       /\ prevBlobUrlRef # 0 =>
            revokeCount'[prevBlobUrlRef] = revokeCount[prevBlobUrlRef] + 1]_vars

\* C7: teardown cancels and releases.  The unmount cleanup, run while a
\* request is in flight, triggers the abort handle of every in-flight
\* request, leaves no timer pending and releases the current preview
\* resource; afterwards no resource is ever released a second time.
C7_TeardownReleasesOnce ==
  [][/\ (mounted /\ ~mounted' /\ \E i \in DOMAIN requests : Pending(i)) =>
          /\ \A i \in DOMAIN requests : Pending(i) => requests'[i].aborted
          /\ timers' = {}
          /\ prevBlobUrlRef # 0 => revokeCount'[prevBlobUrlRef] = 1
     /\ ~mounted => \A b \in Blobs : revokeCount'[b] <= 1]_vars

\* C8: no double release.  No blob URL is revoked more than once, and every
\* blob URL created before the one held in prevBlobUrlRef has been revoked.
C8_NoDoubleRelease ==
  /\ \A b \in Blobs : revokeCount[b] <= 1
  /\ \A b \in created : b # prevBlobUrlRef => revokeCount[b] >= 1

\* C9: at most one preview resource is live.  Every blob URL created and
\* not yet revoked is the one held in prevBlobUrlRef, so an install that
\* replaces a preview has revoked the previous one.
C9_AtMostOneLive ==
  /\ Cardinality(Live) <= 1
  /\ \A b \in created : b # prevBlobUrlRef => revokeCount[b] >= 1

\* a second install has replaced and released the first preview
C9_Witness ==
  /\ created = {1, 2}
  /\ revokeCount[1] = 1
  /\ revokeCount[2] = 0
  /\ prevBlobUrlRef = 2
  /\ previewImageUrl = 2

\* C10: no resource leak.  While no template clear and no unmount has run,
\* the number of revocations is the number of installs minus one, and zero
\* before the first install.
C10_NoResourceLeak ==
  ~everCleared =>
    Released = (IF Installs = 0 THEN 0 ELSE Installs - 1)

C10_Witness ==
  /\ ~everCleared
  /\ Installs = 2
  /\ Released = 1
  /\ last.op = "success"

\* the document or the template is absent, or the template is the sentinel
Absent(data, template) ==
  data = NoDoc \/ template = NoTemplate \/ template = Uploaded

\* a render that changes the document or the template and ends with them absent
AbsentChange ==
  /\ <<resumeData, selectedTemplate>>' # <<resumeData, selectedTemplate>>
  /\ Absent(resumeData', selectedTemplate')

\* C11 as stated: a document/template change that ends with the document or
\* the template absent changes nothing of the session: timer, requests,
\* preview resource, pageCount, currentPage, error string, first-success flag.
C11_GuardedNoOp ==
  [][AbsentChange =>
       UNCHANGED <<timers, timerRef, requests, abortRef, seqRef, compiling,
                   prevBlobUrlRef, revokeCount, created, previewImageUrl,
                   pageCount, currentPage, compileError, hasPreviewRef>>]_vars

\* C11, amended: such a change issues no request, arms no timer and leaves the
\* requests in flight, the sequence number and the compiling flag alone; it
\* leaves no debounce timer pending; if the template stayed as it was the
\* preview, pageCount, currentPage, error string and first-success flag are
\* unchanged, and if the template changed they are all reset.
C11_GuardedChange ==
  [][AbsentChange =>
       /\ UNCHANGED <<requests, abortRef, seqRef, compiling, created>>
       /\ timers' = {} /\ timerRef' = 0
       /\ selectedTemplate' = selectedTemplate =>
            UNCHANGED <<prevBlobUrlRef, revokeCount, previewImageUrl,
                        pageCount, currentPage, compileError, hasPreviewRef>>
       /\ selectedTemplate' # selectedTemplate =>
            /\ prevBlobUrlRef' = 0 /\ previewImageUrl' = 0
            /\ pageCount' = 0 /\ currentPage' = 0
            /\ compileError' = NoError /\ hasPreviewRef' = FALSE]_vars

\* the template became the sentinel while a timer was pending and a request
\* was in flight: the timer is gone, the request is untouched
C11_Witness ==
  /\ last.op = "select"
  /\ last.timer
  /\ selectedTemplate = Uploaded
  /\ timers = {}
  /\ \E i \in DOMAIN requests : Pending(i) /\ ~requests[i].aborted
  /\ compiling

\* C12: no request is issued while the document or the template is absent,
\* whichever operation calls the compile primitive; a queued triggerCompile
\* that runs then changes no request, no abort handle, no sequence number and
\* no flag.
C12_NeverIssuedWhileAbsent ==
  [][/\ Len(requests') > Len(requests) =>
          /\ ~Absent(resumeData, selectedTemplate)
          /\ requests'[Len(requests')].doc = resumeData
          /\ requests'[Len(requests')].template = selectedTemplate
     /\ (Absent(resumeData, selectedTemplate)
           /\ pendingTrigger' < pendingTrigger) =>
          UNCHANGED <<requests, abortRef, seqRef, compiling,
                      compileError>>]_vars

\* a queued triggerCompile ran with the template absent while a request was
\* in flight: nothing was issued and the request is still not aborted
C12_Witness ==
  /\ last.op = "trigger"
  /\ last.req = 0
  /\ Absent(resumeData, selectedTemplate)
  /\ \E i \in DOMAIN requests : Pending(i) /\ ~requests[i].aborted
  /\ compiling
  /\ mounted

\* C13: goToPage(p) sets currentPage to p and issues the request for page p in
\* the same step, a debounce timer pending or not; no timer is left to wait for.
C13_GoToPageImmediate ==
  [][last'.op = "goto" =>
       /\ Len(requests') = Len(requests) + 1
       /\ requests'[Len(requests')].st = "pending"
       /\ requests'[Len(requests')].page = currentPage'
       /\ currentPage' # currentPage
       /\ timers' = {}]_vars

\* goToPage(1) ran while a debounce timer was pending
C13_Witness ==
  /\ last.op = "goto"
  /\ last.timer
  /\ last.page = 0
  /\ currentPage = 1
  /\ requests[last.req].page = 1
  /\ requests[last.req].st = "pending"
  /\ timers = {}

\* request i is no longer the one last issued
Superseded(i) == i \in DOMAIN requests /\ requests[i].seq # seqRef

\* C14: a failure of a superseded request is discarded.  The handler of a
\* request that resumes after the read of its error body, a newer request
\* having been issued meanwhile, leaves compileError as it is.
C14_SupersededFailureDiscarded ==
  [][\A i \in DOMAIN requests :
       (Superseded(i) /\ requests[i].st = "reading" /\ Resumes(i)) =>
         compileError' = compileError]_vars

\* C15: a stale completion never clears compiling.  No step of a superseded
\* request's handler changes the flag, and the flag goes from true to false
\* only in the step that ends the handler of the request last issued.
C15_StaleNeverClearsCompiling ==
  [][/\ \A i \in DOMAIN requests :
          (Superseded(i) /\ Resumes(i)) => compiling' = compiling
     /\ (compiling /\ ~compiling') =>
          \E i \in DOMAIN requests :
            /\ Resumes(i)
            /\ requests'[i].st = "done"
            /\ requests[i].seq = seqRef]_vars

\* request 1 has completed after request 2 was issued; request 2 is still
\* pending and compiling is still true
C15_Witness ==
  /\ mounted
  /\ Len(requests) = 2
  /\ last.req = 1
  /\ last.op \in {"success", "failure", "cancel", "body"}
  /\ requests[1].st = "done"
  /\ Pending(2)
  /\ compiling

\* the requests in flight whose abort handle has not been triggered
InFlight == {i \in DOMAIN requests : Pending(i) /\ ~requests[i].aborted}

\* C16: at most one request that has not been aborted is in flight, and it is
\* the one last issued.
C16_AtMostOneInFlight ==
  /\ Cardinality(InFlight) <= 1
  /\ InFlight \subseteq {Len(requests)}

\* two requests are pending: the first aborted, the second not
C16_Witness ==
  /\ Len(requests) = 2
  /\ Pending(1) /\ requests[1].aborted
  /\ Pending(2) /\ ~requests[2].aborted
  /\ mounted

\* C17: a cancelled request sets no error.  The step that delivers a
\* cancellation leaves compileError, the preview and pageCount unchanged.
C17_CancelSetsNoError ==
  [][\A i \in DOMAIN requests :
       (Delivered(i) /\ requests'[i].kind = "cancel") =>
         UNCHANGED <<compileError, previewImageUrl, pageCount,
                     prevBlobUrlRef, created, revokeCount>>]_vars

\* a superseded request was cancelled while a preview was shown
C17_Witness ==
  /\ mounted
  /\ last.op = "cancel"
  /\ requests[last.req].kind = "cancel"
  /\ requests[last.req].aborted
  /\ previewImageUrl # 0
  /\ compileError = NoError
  /\ Len(requests) = 2
  /\ last.req = 1

\* a request is issued
Issued == Len(requests') > Len(requests)

\* C18 as stated: no automatic retry.  A request is issued only by the timer
\* callback, triggerCompile or goToPage, never by a step of a request's
\* handler, and an error string set by a failure is cleared only by the step
\* that issues the next request.
C18_NoAutomaticRetry ==
  [][/\ Issued => last'.op \in {"timer", "trigger", "goto"}
     /\ \A i \in DOMAIN requests : Resumes(i) => ~Issued
     /\ (compileError # NoError /\ compileError' = NoError) => Issued]_vars

\* C18, amended: as above, but the error string is cleared by the step that
\* issues the next request or by the template becoming null or "uploaded";
\* and the failure of the request last issued leaves an error string set.
C18_ErrorClearedByIssueOrClear ==
  [][/\ Issued => last'.op \in {"timer", "trigger", "goto"}
     /\ \A i \in DOMAIN requests : Resumes(i) => ~Issued
     /\ (compileError # NoError /\ compileError' = NoError) =>
          (Issued \/ TemplateCleared)
     /\ \A i \in DOMAIN requests :
          (mounted /\ Resumes(i) /\ requests'[i].st = "done"
             /\ requests'[i].kind \in FailKinds /\ requests[i].seq = seqRef) =>
            compileError' # NoError]_vars

\* after a failure the document was edited: every request has ended, none
\* was issued again, and the error string is still shown while the new
\* debounce timer runs
C18_Witness ==
  /\ mounted
  /\ last.op = "edit"
  /\ compileError # NoError
  /\ ~compiling
  /\ timers # {}
  /\ Len(requests) = 1
  /\ requests[1].st = "done"
  /\ requests[1].kind \in FailKinds

PresentChange ==
  /\ <<resumeData, selectedTemplate>>' # <<resumeData, selectedTemplate>>
  /\ ~Absent(resumeData', selectedTemplate')

\* C20: a change of the document or the template with both present resets
\* currentPage to 0 and leaves exactly one debounce timer pending, the one
\* just armed; the request its expiry issues is for page 0 and carries the
\* document of that moment.
C20_ScheduleResetsPage ==
  [][/\ PresentChange =>
          /\ currentPage' = 0
          /\ Cardinality(timers') = 1
          /\ timers' = {timerRef'}
          /\ ~Issued
     /\ (last'.op = "timer" /\ Issued) =>
          /\ requests'[Len(requests')].page = 0
          /\ requests'[Len(requests')].doc = resumeData
          /\ timers' = {}]_vars

\* the document was edited while page 1 was shown
C20_Witness ==
  /\ mounted
  /\ last.op = "edit"
  /\ last.page = 1
  /\ currentPage = 0
  /\ pageCount = 2
  /\ previewImageUrl # 0
  /\ Cardinality(timers) = 1

\* C21: page count default.  pageCount is always a number: 0 before the
\* first install and after a clear, otherwise the integer of the
\* x-page-count header, or 1 when the header is missing or is not an integer.
C21_PageCountIsNumber ==
  pageCount # NaN

\* C23: while no template is selected or the template is "uploaded", no
\* preview is shown, pageCount is 0 and the first-success flag is false.
C23_ClearedStaysCleared ==
  (selectedTemplate = NoTemplate \/ selectedTemplate = Uploaded) =>
    /\ previewImageUrl = 0
    /\ pageCount = 0
    /\ hasPreviewRef = FALSE

\* C22: first-success signal.  While a template is selected, the
\* sidebar-collapse event has been dispatched once in the session if a
\* preview has been installed in it, and not at all otherwise.
C22_FirstSuccessSignal ==
  (mounted /\ selectedTemplate \in RealTemplates) =>
    session.emits = (IF session.installed THEN 1 ELSE 0)

\* nothing is in flight, queued or timed
AtRest ==
  /\ \A i \in DOMAIN requests : requests[i].st = "done"
  /\ timers = {}
  /\ pendingTrigger = 0

\* C24: page/preview consistency at rest.  Whenever a preview is displayed,
\* no request is in flight and no debounce timer is pending, the preview is
\* the render of page currentPage.
C24_PageMatchesPreviewAtRest ==
  (mounted /\ previewImageUrl # 0 /\ AtRest) => shown = currentPage

\* C25: the page index stays in range.  In the state a successful compile
\* leaves, its preview installed and its page count a number, currentPage is
\* below pageCount.
C25_PageIndexInRange ==
  (/\ mounted
   /\ last.op = "success"
   /\ previewImageUrl = last.req
   /\ pageCount # NaN) => currentPage < pageCount

\* C26: compiling tracks the current request.  Before unmount, compiling is
\* true exactly when the request last issued has not completed (its handler
\* has not ended); so the flag is false once that request has completed and
\* until the next one is issued.
C26_CompilingTracksCurrent ==
  mounted =>
    (compiling <=>
       (requests # <<>> /\ requests[Len(requests)].st # "done"))

\* the request last issued has completed while an older one is still
\* pending: compiling is false
C26_Witness ==
  /\ mounted
  /\ Len(requests) = 2
  /\ requests[2].st = "done"
  /\ requests[1].st = "pending"
  /\ ~compiling

\* C27: eventual freshness.  When the successful response of the request
\* last issued arrives with the document and the template present and no
\* debounce timer or queued triggerCompile left to issue another one, the
\* request was made for the document, the template and the page that are
\* current, and its render becomes the preview: no edit stays uncompiled
\* because triggerCompile or goToPage cancelled its timer.
C27_EventualFreshness ==
  [][\A i \in DOMAIN requests :
       (/\ mounted
        /\ Delivered(i)
        /\ requests'[i].kind = "success"
        /\ requests[i].seq = seqRef
        /\ timers = {}
        /\ pendingTrigger = 0
        /\ ~Absent(resumeData, selectedTemplate)) =>
         /\ requests[i].doc = resumeData
         /\ requests[i].template = selectedTemplate
         /\ requests[i].page = currentPage
         /\ previewImageUrl' = i
         /\ shown' = currentPage']_vars

\* at rest after an edit and a page change: the preview is the second
\* request's render of page 1 of the edited document
C27_Witness ==
  /\ mounted
  /\ AtRest
  /\ last.op = "success"
  /\ last.req = 2
  /\ previewImageUrl = 2
  /\ resumeData = "d2"
  /\ currentPage = 1
  /\ shown = 1
  /\ selectedTemplate \in RealTemplates

\* C28: the page viewer respects goToPage's precondition.  With currentPage
\* in range, a page the viewer's buttons offer is in 0..pageCount-1, is
\* offered only when there is more than one page, and never while a compile
\* is in flight with a preview shown.
C28_ViewerRespectsPrecondition ==
  \A p \in {currentPage - 1, currentPage + 1} :
    (ViewerOffers(p) /\ 0 <= currentPage /\ currentPage < pageCount) =>
      /\ 0 <= p /\ p < pageCount
      /\ pageCount > 1
      /\ ~(compiling /\ previewImageUrl # 0)

\* the next button was pressed on page 0 of 2; with the compile of page 1 in
\* flight the viewer offers no page
C28_Witness ==
  /\ mounted
  /\ last.op = "goto"
  /\ ~last.timer
  /\ pageCount = 2
  /\ currentPage = 1
  /\ compiling /\ previewImageUrl # 0
  /\ ~ViewerOffers(0)

\* C29: clearing the resume is durable.  From clearResume until resume data
\* is set again by an upload, an edit or a template selection, the key
\* careerlift:resumeBuilder is absent from the storage.
C29_ClearIsDurable ==
  draftCleared => storedDraft = NoDoc

\* the call of search() last issued
LastSearch == searches[Len(searches)]

\* C30: the job search shows the latest query's result.  Once every search
\* has completed, two or more having been issued, the job list and the error
\* displayed are those of the search last issued: its result and no error if
\* it succeeded, the empty list and its error if it failed.
C30_LatestSearchShown ==
  (Len(searches) >= 2 /\ \A i \in DOMAIN searches : searches[i].st # "pending")
    => IF LastSearch.st = "ok"
       THEN /\ jobs = [resume |-> LastSearch.resume, q |-> LastSearch.q]
            /\ jobError = NoError
       ELSE /\ jobs = NoJobs
            /\ jobError # NoError

====
